---- MODULE Spec2Model ----
(***************************************************************************)
(* universal-developer: the symbolic-command pipeline.                     *)
(*                                                                         *)
(*   ModelAdapter  (src/adapters/base.ts)   registry, parser, generate     *)
(*   ClaudeAdapter / OpenAIAdapter / QwenAdapter   the six transforms      *)
(*   UniversalLLM  (src/index.ts)           facade, usage counter,         *)
(*                                          telemetry                      *)
(*                                                                         *)
(* Strings are sequences of one-character strings, so that the regular     *)
(* expressions of the parser are computed character by character.          *)
(***************************************************************************)
EXTENDS Integers, Sequences, FiniteSets, TLC

VARIABLES
    provider,         \* options.provider handed to the constructor
    adapter,          \* UniversalLLM.adapter, or the error of createAdapter
    telemetry,        \* UniversalLLM.telemetry
    events,           \* the telemetry request of each generate call
    other,            \* a second UniversalLLM of the same process
    temperature,      \* adapter field this.temperature, in hundredths
    maxTokens,        \* adapter field this.maxTokens
    commands,         \* ModelAdapter.commands : name -> SymbolicCommand
    aliasMap,         \* ModelAdapter.aliasMap : alias -> name
    sessionCommands,  \* UniversalLLM.sessionCommands : token -> count
    stats,            \* the map the last getCommandUsageStats returned
    calls             \* the generate calls, each with its position

vars ==
    <<provider, adapter, telemetry, events, other,
      temperature, maxTokens, commands, aliasMap, sessionCommands, stats, calls>>

-----------------------------------------------------------------------------
(* Bounds *)

MaxCalls == 2         \* generate calls on the facade
MaxOtherCalls == 2    \* generate calls on the second facade

-----------------------------------------------------------------------------
(* Characters *)

Letters ==
    {"a","b","c","d","e","f","g","h","i","j","k","l","m",
     "n","o","p","q","r","s","t","u","v","w","x","y","z",
     "A","B","C","D","E","F","G","H","I","J","K","L","M",
     "N","O","P","Q","R","S","T","U","V","W","X","Y","Z"}

Digits == {"0","1","2","3","4","5","6","7","8","9"}

\* [a-zA-Z0-9_]
WordChars == Letters \cup Digits \cup {"_"}

\* \s
Space == {" ", "\t", "\n", "\r"}

NewLine == {"\n"}

EmptyMap == [x \in {} |-> x]

Range(s) == {s[i] : i \in 1..Len(s)}

\* index of the first character at or after i that is in S, Len(s)+1 if none
RECURSIVE FirstIn(_, _, _)
FirstIn(s, i, S) ==
    IF i > Len(s) THEN Len(s) + 1
    ELSE IF s[i] \in S THEN i
    ELSE FirstIn(s, i + 1, S)

\* index of the first character at or after i that is not in S, Len(s)+1 if none
RECURSIVE FirstNotIn(_, _, _)
FirstNotIn(s, i, S) ==
    IF i > Len(s) THEN Len(s) + 1
    ELSE IF s[i] \notin S THEN i
    ELSE FirstNotIn(s, i + 1, S)

\* index of the last character at or before i that is not in S, 0 if none
RECURSIVE LastNotIn(_, _, _)
LastNotIn(s, i, S) ==
    IF i < 1 THEN 0
    ELSE IF s[i] \notin S THEN i
    ELSE LastNotIn(s, i - 1, S)

\* String.prototype.trim
Trim(s) == SubSeq(s, FirstNotIn(s, 1, Space), LastNotIn(s, Len(s), Space))

\* String.prototype.endsWith
EndsWith(s, suffix) ==
    /\ Len(suffix) <= Len(s)
    /\ SubSeq(s, Len(s) - Len(suffix) + 1, Len(s)) = suffix

\* sub occurs in s
IsInfix(sub, s) ==
    \E i \in 1..(Len(s) - Len(sub) + 1) : SubSeq(s, i, i + Len(sub) - 1) = sub

-----------------------------------------------------------------------------
(* Parameter values: a JavaScript value is a number, a string or a boolean *)

NumberValue(n) == [t |-> "number", n |-> n, s |-> <<>>]
StringValue(s) == [t |-> "string", n |-> 0, s |-> s]
TrueValue == [t |-> "boolean", n |-> 1, s |-> <<>>]
Undefined == [t |-> "undefined", n |-> 0, s |-> <<>>]

\* JavaScript truthiness, as used by `x || fallback`
Truthy(v) ==
    \/ v.t = "number" /\ v.n # 0
    \/ v.t = "string" /\ v.s # <<>>
    \/ v.t = "boolean" /\ v.n = 1

OrElse(v, fallback) == IF Truthy(v) THEN v ELSE fallback

Get(map, key) == IF key \in DOMAIN map THEN map[key] ELSE Undefined

Put(map, key, value) ==
    [k \in DOMAIN map \cup {key} |-> IF k = key THEN value ELSE map[k]]

-----------------------------------------------------------------------------
(* Names *)

None == <<>>    \* null / no command

N_think == <<"t","h","i","n","k">>
N_fast == <<"f","a","s","t">>
N_loop == <<"l","o","o","p">>
N_reflect == <<"r","e","f","l","e","c","t">>
N_collapse == <<"c","o","l","l","a","p","s","e">>
N_fork == <<"f","o","r","k">>
N_iterations == <<"i","t","e","r","a","t","i","o","n","s">>
N_count == <<"c","o","u","n","t">>

N_deep == <<"d","e","e","p">>
N_wide == <<"w","i","d","e">>
N_d == <<"d">>
N_len == <<"l","e","n">>
N_tone == <<"t","o","n","e">>
N_foo == <<"f","o","o">>
N_boom == <<"b","o","o","m">>
N_void == <<"v","o","i","d">>

-----------------------------------------------------------------------------
(* Command registry (base.ts) *)

\* a parameter declaration of SymbolicCommand.parameters
Param(name, hasDefault, default) ==
    [name |-> name, hasDefault |-> hasDefault, default |-> default]

\* a SymbolicCommand without its name; transform names the function it holds
Command(aliases, parameters, transform) ==
    [aliases |-> aliases, parameters |-> parameters, transform |-> transform]

\* this.commands.set(command.name, command)
SetCommand(cmds, name, command) ==
    [n \in DOMAIN cmds \cup {name} |-> IF n = name THEN command ELSE cmds[n]]

\* registerCommand dropping the aliases the name had before
SetAliases_Replacing(am, name, command) ==
    [a \in {x \in DOMAIN am : am[x] # name} \cup Range(command.aliases) |->
        IF a \in Range(command.aliases) THEN name ELSE am[a]]

\* command.aliases.forEach(alias => this.aliasMap.set(alias, command.name))
SetAliases(am, name, command) ==
    [a \in DOMAIN am \cup Range(command.aliases) |->
        IF a \in Range(command.aliases) THEN name ELSE am[a]]

\* registerCoreCommands with fork's count declared with loop's default
CoreCommands_ForkDefault3 ==
    LET c1 == SetCommand(EmptyMap, N_think, Command(<<>>, <<>>, "transformThink"))
        c2 == SetCommand(c1, N_fast, Command(<<>>, <<>>, "transformFast"))
        c3 == SetCommand(c2, N_loop,
                  Command(<<>>, <<Param(N_iterations, TRUE, NumberValue(3))>>,
                          "transformLoop"))
        c4 == SetCommand(c3, N_reflect, Command(<<>>, <<>>, "transformReflect"))
        c5 == SetCommand(c4, N_collapse, Command(<<>>, <<>>, "transformCollapse"))
    IN  SetCommand(c5, N_fork,
            Command(<<>>, <<Param(N_count, TRUE, NumberValue(3))>>, "transformFork"))

\* registerCoreCommands: the six registrations of the constructor
CoreCommands ==
    LET c1 == SetCommand(EmptyMap, N_think, Command(<<>>, <<>>, "transformThink"))
        c2 == SetCommand(c1, N_fast, Command(<<>>, <<>>, "transformFast"))
        c3 == SetCommand(c2, N_loop,
                  Command(<<>>, <<Param(N_iterations, TRUE, NumberValue(3))>>,
                          "transformLoop"))
        c4 == SetCommand(c3, N_reflect, Command(<<>>, <<>>, "transformReflect"))
        c5 == SetCommand(c4, N_collapse, Command(<<>>, <<>>, "transformCollapse"))
    IN  SetCommand(c5, N_fork,
            Command(<<>>, <<Param(N_count, TRUE, NumberValue(2))>>, "transformFork"))

-----------------------------------------------------------------------------
(* Command parser (base.ts) *)

\* /^\/([a-zA-Z0-9_]+)/ of the facade: the leading token, None without a match
LeadingToken(prompt) ==
    IF Len(prompt) >= 2 /\ prompt[1] = "/" /\ prompt[2] \in WordChars
    THEN SubSeq(prompt, 2, FirstNotIn(prompt, 2, WordChars) - 1)
    ELSE None

\* /^\/([a-zA-Z0-9_]+)(?:\s+([^\n]*))?/ : [matched, command, rest, fullLen],
\* fullLen the length of match[0]
MatchCommand(prompt) ==
    IF LeadingToken(prompt) = None
    THEN [matched |-> FALSE, command |-> None, rest |-> <<>>, fullLen |-> 0]
    ELSE LET e1 == FirstNotIn(prompt, 2, WordChars)
             hasRest == e1 <= Len(prompt) /\ prompt[e1] \in Space
             e2 == FirstNotIn(prompt, e1, Space)
             e3 == FirstIn(prompt, e2, NewLine)
         IN  [matched |-> TRUE,
              command |-> SubSeq(prompt, 2, e1 - 1),
              rest    |-> IF hasRest THEN SubSeq(prompt, e2, e3 - 1) ELSE <<>>,
              fullLen |-> IF hasRest THEN e3 - 1 ELSE e1 - 1]

\* ScanParams with `params[paramName] = paramValue` made conditional on the
\* key being new: the first token for a name wins, a default is never replaced
RECURSIVE ScanParams_FirstWins(_, _, _)
ScanParams_FirstWins(s, i, params) ==
    IF i > Len(s) THEN params
    ELSE IF i + 2 <= Len(s) /\ s[i] = "-" /\ s[i+1] = "-" /\ s[i+2] \in WordChars
    THEN LET ne == FirstNotIn(s, i + 2, WordChars)
             paramName == SubSeq(s, i + 2, ne - 1)
             hasValue == ne + 1 <= Len(s) /\ s[ne] = "=" /\ s[ne+1] \notin Space
             ve == IF hasValue THEN FirstIn(s, ne + 1, Space) ELSE ne
             paramValue == IF hasValue THEN StringValue(SubSeq(s, ne + 1, ve - 1))
                           ELSE TrueValue
         IN  ScanParams_FirstWins(s, ve,
                 IF paramName \in DOMAIN params THEN params
                 ELSE Put(params, paramName, paramValue))
    ELSE ScanParams_FirstWins(s, i + 1, params)

\* the while loop over /--([a-zA-Z0-9_]+)(?:=([^\s]+))?/g from index i
RECURSIVE ScanParams(_, _, _)
ScanParams(s, i, params) ==
    IF i > Len(s) THEN params
    ELSE IF i + 2 <= Len(s) /\ s[i] = "-" /\ s[i+1] = "-" /\ s[i+2] \in WordChars
    THEN LET ne == FirstNotIn(s, i + 2, WordChars)
             paramName == SubSeq(s, i + 2, ne - 1)
             hasValue == ne + 1 <= Len(s) /\ s[ne] = "=" /\ s[ne+1] \notin Space
             ve == IF hasValue THEN FirstIn(s, ne + 1, Space) ELSE ne
             paramValue == IF hasValue THEN StringValue(SubSeq(s, ne + 1, ve - 1))
                           ELSE TrueValue
         IN  ScanParams(s, ve, Put(params, paramName, paramValue))
    ELSE ScanParams(s, i + 1, params)

\* cmd.parameters.forEach: the declared defaults
RECURSIVE SetDefaults(_, _, _)
SetDefaults(parameters, i, params) ==
    IF i > Len(parameters) THEN params
    ELSE SetDefaults(parameters, i + 1,
             IF parameters[i].hasDefault
             THEN Put(params, parameters[i].name, parameters[i].default)
             ELSE params)

\* parseParameters keeping only the names the command declares
parseParameters_DeclaredOnly(command, paramString) ==
    IF command \notin DOMAIN commands \/ commands[command].parameters = <<>>
    THEN EmptyMap
    ELSE LET all == ScanParams(paramString, 1,
                        SetDefaults(commands[command].parameters, 1, EmptyMap))
             declared == {commands[command].parameters[j].name :
                             j \in 1..Len(commands[command].parameters)}
         IN  [n \in DOMAIN all \cap declared |-> all[n]]

parseParameters(command, paramString) ==
    IF command \notin DOMAIN commands \/ commands[command].parameters = <<>>
    THEN EmptyMap
    ELSE ScanParams(paramString, 1,
             SetDefaults(commands[command].parameters, 1, EmptyMap))

\* the "no command" result with the matched text stripped all the same
NoCommand_Stripped(prompt) ==
    [command |-> None,
     cleanPrompt |-> Trim(SubSeq(prompt, MatchCommand(prompt).fullLen + 1, Len(prompt))),
     parameters |-> EmptyMap]

NoCommand(prompt) ==
    [command |-> None, cleanPrompt |-> prompt, parameters |-> EmptyMap]

\* parseCommand without the `this.commands.has(commandName)` check
parseCommand_NoHasCheck(prompt) ==
    LET match == MatchCommand(prompt)
        commandName == IF match.command \in DOMAIN aliasMap
                       THEN aliasMap[match.command] ELSE match.command
    IN  IF ~match.matched THEN NoCommand(prompt)
        ELSE [command     |-> commandName,
              cleanPrompt |-> Trim(SubSeq(prompt, match.fullLen + 1, Len(prompt))),
              parameters  |-> parseParameters(commandName, match.rest)]

parseCommand(prompt) ==
    LET match == MatchCommand(prompt)
        commandName == IF match.command \in DOMAIN aliasMap
                       THEN aliasMap[match.command] ELSE match.command
    IN  IF ~match.matched THEN NoCommand(prompt)
        ELSE IF commandName \notin DOMAIN commands THEN NoCommand(prompt)
        ELSE [command     |-> commandName,
              cleanPrompt |-> Trim(SubSeq(prompt, match.fullLen + 1, Len(prompt))),
              parameters  |-> parseParameters(commandName, match.rest)]

-----------------------------------------------------------------------------
(* Transforms (claude.ts, openai.ts, qwen.ts) *)

DefaultTemperature == 70    \* options.temperature || 0.7, in hundredths
DefaultMaxTokens == 4096    \* options.maxTokens || 4096
FastTokenCap == 1024        \* Math.min(this.maxTokens, 1024)
TemperatureFloor == 10      \* Math.max(0.1, ...)
TemperatureCeiling == 100   \* Math.min(1.0, ...)

\* Math.max written as Math.min
MaxOf_AsMin(a, b) == IF a <= b THEN a ELSE b

MaxOf(a, b) == IF a >= b THEN a ELSE b

\* Math.min written as Math.max
MinOf_AsMax(a, b) == IF a >= b THEN a ELSE b

MinOf(a, b) == IF a <= b THEN a ELSE b

T_think == <<" ", "/", "t", "h", "i", "n", "k">>

\* the marker that turns reasoning on, where the one that turns it off belongs
T_no_think_AsThink == <<" ", "/", "t", "h", "i", "n", "k">>

T_no_think == <<" ", "/", "n", "o", "_", "t", "h", "i", "n", "k">>

\* a system prompt: the caller's text followed by the addendum a transform
\* appends, the addendum named by its transform and the value it interpolates
SystemText(base, addendum, arg) == [base |-> base, addendum |-> addendum, arg |-> arg]

\* a TransformedPrompt; defined is FALSE for the value undefined
Transformed(systemPrompt, userPrompt, modelParameters) ==
    [defined |-> TRUE, systemPrompt |-> systemPrompt, userPrompt |-> userPrompt,
     modelParameters |-> modelParameters]

NoTransformed ==
    [defined |-> FALSE, systemPrompt |-> SystemText("", "", Undefined),
     userPrompt |-> <<>>, modelParameters |-> EmptyMap]

ClaudeTransform(transform, prompt, options) ==
    CASE transform = "transformThink" ->
            Transformed(SystemText(options.systemPrompt, "think", Undefined), prompt,
                [temperature |-> MaxOf(TemperatureFloor, temperature - 20),
                 enable_thinking |-> TRUE])
      [] transform = "transformFast" ->
            Transformed(SystemText(options.systemPrompt, "fast", Undefined), prompt,
                [temperature |-> MinOf(TemperatureCeiling, temperature + 10),
                 max_tokens |-> MinOf(maxTokens, FastTokenCap),
                 enable_thinking |-> FALSE])
      [] transform = "transformLoop" ->
            Transformed(SystemText(options.systemPrompt, "loop",
                    OrElse(Get(options.parameters, N_iterations), NumberValue(3))),
                prompt,
                [temperature |-> temperature, max_tokens |-> maxTokens])
      [] transform = "transformReflect" ->
            Transformed(SystemText(options.systemPrompt, "reflect", Undefined), prompt,
                [temperature |-> MaxOf(TemperatureFloor, temperature - 10),
                 enable_thinking |-> TRUE])
      [] transform = "transformCollapse" ->
            Transformed(SystemText(options.systemPrompt, "", Undefined), prompt,
                [temperature |-> temperature, max_tokens |-> maxTokens,
                 enable_thinking |-> FALSE])
      [] transform = "transformFork" ->
            Transformed(SystemText(options.systemPrompt, "fork",
                    OrElse(Get(options.parameters, N_count), NumberValue(2))),
                prompt,
                [temperature |-> MinOf(TemperatureCeiling, temperature + 20),
                 max_tokens |-> maxTokens])

OpenAITransform(transform, prompt, options) ==
    CASE transform = "transformThink" ->
            Transformed(SystemText(options.systemPrompt, "think", Undefined), prompt,
                [temperature |-> MaxOf(TemperatureFloor, temperature - 20),
                 max_tokens |-> maxTokens])
      [] transform = "transformFast" ->
            Transformed(SystemText(options.systemPrompt, "fast", Undefined), prompt,
                [temperature |-> MinOf(TemperatureCeiling, temperature + 10),
                 max_tokens |-> MinOf(maxTokens, FastTokenCap),
                 presence_penalty |-> 100, frequency_penalty |-> 100])
      [] transform = "transformLoop" ->
            Transformed(SystemText(options.systemPrompt, "loop",
                    OrElse(Get(options.parameters, N_iterations), NumberValue(3))),
                prompt,
                [temperature |-> temperature, max_tokens |-> maxTokens])
      [] transform = "transformReflect" ->
            Transformed(SystemText(options.systemPrompt, "reflect", Undefined), prompt,
                [temperature |-> MaxOf(TemperatureFloor, temperature - 10),
                 max_tokens |-> maxTokens])
      [] transform = "transformCollapse" ->
            Transformed(SystemText(options.systemPrompt, "", Undefined), prompt,
                [temperature |-> temperature, max_tokens |-> maxTokens])
      [] transform = "transformFork" ->
            Transformed(SystemText(options.systemPrompt, "fork",
                    OrElse(Get(options.parameters, N_count), NumberValue(2))),
                prompt,
                [temperature |-> MinOf(TemperatureCeiling, temperature + 20),
                 max_tokens |-> maxTokens])

QwenTransform(transform, prompt, options) ==
    CASE transform = "transformThink" ->
            Transformed(SystemText(options.systemPrompt, "", Undefined),
                IF EndsWith(Trim(prompt), Tail(T_think)) THEN prompt
                ELSE prompt \o T_think,
                [temperature |-> MaxOf(TemperatureFloor, temperature - 20),
                 enable_thinking |-> TRUE])
      [] transform = "transformFast" ->
            Transformed(SystemText(options.systemPrompt, "fast", Undefined),
                IF EndsWith(Trim(prompt), Tail(T_no_think)) THEN prompt
                ELSE prompt \o T_no_think,
                [temperature |-> MinOf(TemperatureCeiling, temperature + 10),
                 max_tokens |-> MinOf(maxTokens, FastTokenCap),
                 enable_thinking |-> FALSE])
      [] transform = "transformLoop" ->
            Transformed(SystemText(options.systemPrompt, "loop",
                    OrElse(Get(options.parameters, N_iterations), NumberValue(3))),
                prompt,
                [temperature |-> temperature, enable_thinking |-> TRUE])
      [] transform = "transformReflect" ->
            Transformed(SystemText(options.systemPrompt, "reflect", Undefined),
                prompt \o T_think,
                [temperature |-> MaxOf(TemperatureFloor, temperature - 10),
                 enable_thinking |-> TRUE])
      [] transform = "transformCollapse" ->
            Transformed(SystemText(options.systemPrompt, "", Undefined),
                prompt \o T_no_think,
                [temperature |-> temperature, max_tokens |-> maxTokens,
                 enable_thinking |-> FALSE])
      [] transform = "transformFork" ->
            Transformed(SystemText(options.systemPrompt, "fork",
                    OrElse(Get(options.parameters, N_count), NumberValue(2))),
                prompt,
                [temperature |-> MinOf(TemperatureCeiling, temperature + 20),
                 max_tokens |-> maxTokens, enable_thinking |-> TRUE])

BuiltIn ==
    {"transformThink", "transformFast", "transformLoop",
     "transformReflect", "transformCollapse", "transformFork"}

\* the custom transforms that throw (or return a rejected promise), and
\* those that return nothing
Throwing == {"customThrows"}
Returning_undefined == {"customVoid"}

\* a transform a caller registers: it marks the system prompt with its own
\* name and hands the prompt on, unless it is one that throws or returns
\* nothing
CustomTransform(transform, prompt, options) ==
    IF transform \in Throwing \cup Returning_undefined THEN NoTransformed
    ELSE Transformed(SystemText(options.systemPrompt, transform, Undefined),
                     prompt, EmptyMap)

\* command.transform(cleanPrompt, {systemPrompt, parameters, options})
InvokeTransform(transform, prompt, options) ==
    IF transform \notin BuiltIn THEN CustomTransform(transform, prompt, options)
    ELSE CASE provider = "anthropic" -> ClaudeTransform(transform, prompt, options)
           [] provider = "openai" -> OpenAITransform(transform, prompt, options)
           [] provider = "qwen" -> QwenTransform(transform, prompt, options)

-----------------------------------------------------------------------------
(* Inputs *)

P_ThinkHello == \* '/think hello world'
    <<"/", "t", "h", "i", "n", "k", " ", "h", "e", "l", "l", "o", " ", "w", "o", "r", "l", "d">>
P_LoopFive == \* '/loop --iterations=5 improve this'
    <<"/", "l", "o", "o", "p", " ", "-", "-", "i", "t", "e", "r", "a", "t", "i", "o", "n", "s", "=", "5", " ", "i", "m", "p", "r", "o", "v", "e", " ", "t", "h", "i", "s">>
P_Unknown == \* '/unknowncmd hi'
    <<"/", "u", "n", "k", "n", "o", "w", "n", "c", "m", "d", " ", "h", "i">>
P_NoMarker == \* 'hello /think'
    <<"h", "e", "l", "l", "o", " ", "/", "t", "h", "i", "n", "k">>
P_Chain == \* '/think /loop --iterations=2 X'
    <<"/", "t", "h", "i", "n", "k", " ", "/", "l", "o", "o", "p", " ", "-", "-", "i", "t", "e", "r", "a", "t", "i", "o", "n", "s", "=", "2", " ", "X">>
P_ThinkNewline == \* '/think\nhello world'
    <<"/", "t", "h", "i", "n", "k", "\n", "h", "e", "l", "l", "o", " ", "w", "o", "r", "l", "d">>
P_LoopPlain == \* '/loop improve'
    <<"/", "l", "o", "o", "p", " ", "i", "m", "p", "r", "o", "v", "e">>
P_LoopBare == \* '/loop --iterations improve'
    <<"/", "l", "o", "o", "p", " ", "-", "-", "i", "t", "e", "r", "a", "t", "i", "o", "n", "s", " ", "i", "m", "p", "r", "o", "v", "e">>
P_LoopDup == \* '/loop --iterations=5 --iterations=7 x'
    <<"/", "l", "o", "o", "p", " ", "-", "-", "i", "t", "e", "r", "a", "t", "i", "o", "n", "s", "=", "5", " ", "-", "-", "i", "t", "e", "r", "a", "t", "i", "o", "n", "s", "=", "7", " ", "x">>
P_LoopExtra == \* '/loop --foo=bar x'
    <<"/", "l", "o", "o", "p", " ", "-", "-", "f", "o", "o", "=", "b", "a", "r", " ", "x">>
P_ThinkExtra == \* '/think --foo=bar x'
    <<"/", "t", "h", "i", "n", "k", " ", "-", "-", "f", "o", "o", "=", "b", "a", "r", " ", "x">>
P_Alias == \* '/d hi'
    <<"/", "d", " ", "h", "i">>
P_DeepParams == \* '/deep --len=2 --tone hi'
    <<"/", "d", "e", "e", "p", " ", "-", "-", "l", "e", "n", "=", "2", " ", "-", "-", "t", "o", "n", "e", " ", "h", "i">>
P_Deep == \* '/deep hi'
    <<"/", "d", "e", "e", "p", " ", "h", "i">>
P_Wide == \* '/wide hi'
    <<"/", "w", "i", "d", "e", " ", "h", "i">>
P_ThinkOnly == \* '/think'
    <<"/", "t", "h", "i", "n", "k">>
P_ForkTwoLines == \* '/fork --count=4 a\n--count=9 b'
    <<"/", "f", "o", "r", "k", " ", "-", "-", "c", "o", "u", "n", "t", "=", "4", " ", "a", "\n", "-", "-", "c", "o", "u", "n", "t", "=", "9", " ", "b">>
P_Glued == \* '/think/loop X'
    <<"/", "t", "h", "i", "n", "k", "/", "l", "o", "o", "p", " ", "X">>
P_SlashSpace == \* '/ think'
    <<"/", " ", "t", "h", "i", "n", "k">>
P_LoopEmbedded == \* '/loop x--iterations=9'
    <<"/", "l", "o", "o", "p", " ", "x", "-", "-", "i", "t", "e", "r", "a", "t", "i", "o", "n", "s", "=", "9">>
P_LoopNextLine == \* '/loop\n--iterations=5 x'
    <<"/", "l", "o", "o", "p", "\n", "-", "-", "i", "t", "e", "r", "a", "t", "i", "o", "n", "s", "=", "5", " ", "x">>
P_Plain == \* 'hi'
    <<"h", "i">>
P_ForkPlain == \* '/fork X'
    <<"/", "f", "o", "r", "k", " ", "X">>
P_Boom == \* '/boom hi'
    <<"/", "b", "o", "o", "m", " ", "h", "i">>
P_Void == \* '/void hi'
    <<"/", "v", "o", "i", "d", " ", "h", "i">>
P_Fast == \* '/fast hi'
    <<"/", "f", "a", "s", "t", " ", "h", "i">>
P_Collapse == \* '/collapse hi'
    <<"/", "c", "o", "l", "l", "a", "p", "s", "e", " ", "h", "i">>

\* the prompts the parser is applied to
AllPrompts ==
    {P_ThinkHello, P_LoopFive, P_Unknown, P_NoMarker, P_Chain, P_ThinkNewline,
     P_LoopPlain, P_LoopBare, P_LoopDup, P_LoopExtra, P_ThinkExtra, P_Alias,
     P_DeepParams, P_Deep, P_Wide, P_ThinkOnly, P_ForkTwoLines, P_Glued,
     P_SlashSpace, P_LoopEmbedded, P_LoopNextLine, P_Plain, P_ForkPlain}

\* the prompts of the interleaved generate calls
FacadePrompts == {P_ThinkHello, P_Alias, P_Unknown, P_Plain}

\* the prompts of the calls on a facade with configured defaults
ConfigPrompts == {P_Fast, P_ThinkHello, P_LoopBare, P_Collapse, P_Plain}

\* the caller's systemPrompt: absent (defaulted to '') or a text
SystemPrompts == {"", "be terse"}

\* the commands a caller registers: [name, command]
Registrations ==
    { [name |-> N_deep, command |-> Command(<<N_d>>, <<>>, "customDeep")],
      [name |-> N_deep,
       command |-> Command(<<>>,
                       <<Param(N_len, FALSE, Undefined),
                         Param(N_tone, TRUE, StringValue(<<"x">>))>>,
                       "customDeep2")],
      [name |-> N_wide, command |-> Command(<<N_d, N_think>>, <<>>, "customWide")],
      [name |-> N_think, command |-> Command(<<>>, <<>>, "customThink")] }

\* the registrations made while generate calls are in flight
FacadeRegistrations ==
    { [name |-> N_deep, command |-> Command(<<N_d>>, <<>>, "customDeep")],
      [name |-> N_think, command |-> Command(<<>>, <<>>, "customThink")] }

\* custom commands whose transform fails
FaultyRegistrations ==
    { [name |-> N_boom, command |-> Command(<<>>, <<>>, "customThrows")],
      [name |-> N_void, command |-> Command(<<>>, <<>>, "customVoid")] }

\* the prompts of the calls whose transform or provider fails
ErrorPrompts == {P_ThinkHello, P_Boom, P_Void, P_Plain}

Providers == {"anthropic", "openai", "qwen"}

-----------------------------------------------------------------------------
(* The facade and the adapter's generate (index.ts, base.ts) *)

\* the identifiers of type Provider that have no case in createAdapter, and
\* one identifier outside the type
ProviderIds == Providers \cup {"gemini", "vllm", "ollama", "lmstudio", "mistral"}

\* options.apiKey
ApiKey == "sk-key"

\* createAdapter with the commented-out gemini case taken as an OpenAI-style
\* adapter
createAdapter_GeminiCase(p) ==
    CASE p = "anthropic" -> [class |-> "ClaudeAdapter", apiKey |-> ApiKey,
             baseURL |-> "https://api.anthropic.com",
             model |-> "claude-3-opus-20240229", error |-> ""]
      [] p \in {"openai", "gemini"} ->
            [class |-> "OpenAIAdapter", apiKey |-> ApiKey,
             baseURL |-> "https://api.openai.com", model |-> "gpt-4", error |-> ""]
      [] p = "qwen" -> [class |-> "QwenAdapter", apiKey |-> ApiKey,
             baseURL |-> "https://api.qwen.ai", model |-> "qwen3-30b-a3b", error |-> ""]
      [] OTHER -> [class |-> "", apiKey |-> "", baseURL |-> "", model |-> "",
                 error |-> "Unsupported provider"]

\* createAdapter: the adapter constructed for the provider, or the error thrown
createAdapter(p) ==
    CASE p = "anthropic" -> [class |-> "ClaudeAdapter", apiKey |-> ApiKey,
             baseURL |-> "https://api.anthropic.com",
             model |-> "claude-3-opus-20240229", error |-> ""]
      [] p = "openai" -> [class |-> "OpenAIAdapter", apiKey |-> ApiKey,
             baseURL |-> "https://api.openai.com", model |-> "gpt-4", error |-> ""]
      [] p = "qwen" -> [class |-> "QwenAdapter", apiKey |-> ApiKey,
             baseURL |-> "https://api.qwen.ai", model |-> "qwen3-30b-a3b", error |-> ""]
      [] OTHER -> [class |-> "", apiKey |-> "", baseURL |-> "", model |-> "",
                 error |-> "Unsupported provider"]

\* the constructor returned: there is a facade to call
Usable == adapter.error = ""

\* the provider named in `Failed to execute <Provider> prompt: ...`
ProviderTag ==
    CASE adapter.class = "ClaudeAdapter" -> "Claude"
      [] adapter.class = "OpenAIAdapter" -> "OpenAI"
      [] adapter.class = "QwenAdapter" -> "Qwen"
      [] OTHER -> ""

\* constructor.name.replace('Adapter', '').toLowerCase()
TelemetryProvider ==
    CASE adapter.class = "ClaudeAdapter" -> "claude"
      [] adapter.class = "OpenAIAdapter" -> "openai"
      [] adapter.class = "QwenAdapter" -> "qwen"
      [] OTHER -> ""

NoError == [raised |-> FALSE, tag |-> "", message |-> ""]

\* new Error(`Failed to execute <Provider> prompt: ${error.message}`)
ProviderError(message) == [raised |-> TRUE, tag |-> ProviderTag, message |-> message]

\* the error a custom transform throws, as it reaches the caller of generate
TransformError(transform) == [raised |-> TRUE, tag |-> "", message |-> transform]

\* the ways axios.post rejects: no connection, a status outside 2xx
FailureCauses == {"Network Error", "Request failed with status code 500"}

\* the bodies of a 2xx reply: with the completion text, without the list that
\* holds it (content / choices), and with the list but without the text in it
ResponseBodies == {"complete", "noList", "noText"}

NoParse == [command |-> None, cleanPrompt |-> <<>>, parameters |-> EmptyMap]

NoRequest ==
    [system |-> SystemText("", "", Undefined), hasSystem |-> FALSE, user |-> <<>>,
     temperature |-> 0, max_tokens |-> 0]

IdleCall ==
    [pc |-> "idle", prompt |-> <<>>, systemPrompt |-> "", command |-> None,
     parsed |-> NoParse, invoked |-> "", transformed |-> NoTransformed,
     request |-> NoRequest, posts |-> 0, reply |-> "", result |-> "",
     error |-> NoError]

NoEvent ==
    [status |-> "none", command |-> None, provider |-> "", prompt_length |-> 0,
     anonymousId |-> "", sessionId |-> ""]

\* sendTelemetry up to its first await: the event it posts, no event when
\* telemetry is disabled; the timestamp is left out
sendTelemetry(command, prompt) ==
    IF ~telemetry.enabled THEN NoEvent
    ELSE [status |-> "inFlight", command |-> command, provider |-> TelemetryProvider,
          prompt_length |-> Len(prompt), anonymousId |-> telemetry.anonymousId,
          sessionId |-> telemetry.sessionId]

\* trackCommandUsage that does not read the current count
trackCommandUsage_NoRead(command) ==
    [k \in DOMAIN sessionCommands \cup {command} |->
        IF k = command THEN 1 ELSE sessionCommands[k]]

\* trackCommandUsage whose update is lost while another call with the same
\* token is suspended
trackCommandUsage_Lost(command) ==
    LET currentCount == IF command \in DOMAIN sessionCommands
                        THEN sessionCommands[command] ELSE 0
        suspended == \E j \in DOMAIN calls :
                        /\ calls[j].pc \in {"awaitTransform", "awaitHttp"}
                        /\ calls[j].command = command
    IN  [k \in DOMAIN sessionCommands \cup {command} |->
            IF k # command THEN sessionCommands[k]
            ELSE IF suspended THEN currentCount ELSE currentCount + 1]

\* trackCommandUsage: the counter after one more use of command
trackCommandUsage(command) ==
    LET currentCount == IF command \in DOMAIN sessionCommands
                        THEN sessionCommands[command] ELSE 0
    IN  [k \in DOMAIN sessionCommands \cup {command} |->
            IF k = command THEN currentCount + 1 ELSE sessionCommands[k]]

\* the body executePrompt posts: the system message is sent when the system
\* prompt is not the empty string, `x || default` fills temperature and cap
WireRequest(transformed) ==
    LET mp == transformed.modelParameters
        sys == transformed.systemPrompt
    IN  [system |-> sys,
         hasSystem |-> sys.base # "" \/ sys.addendum # "",
         user |-> transformed.userPrompt,
         temperature |-> IF "temperature" \in DOMAIN mp /\ mp.temperature # 0
                         THEN mp.temperature ELSE temperature,
         max_tokens |-> IF "max_tokens" \in DOMAIN mp /\ mp.max_tokens # 0
                        THEN mp.max_tokens ELSE maxTokens]

\* the value of `transformed` in ModelAdapter.generate, and the transform it
\* came from ("" when none was invoked)
generateTransform(prompt, systemPrompt) ==
    LET parsed == parseCommand(prompt)
        options == [systemPrompt |-> systemPrompt, parameters |-> parsed.parameters]
    IN  IF parsed.command = None
        THEN [invoked |-> "",
              transformed |-> Transformed(SystemText(systemPrompt, "", Undefined),
                                          prompt, EmptyMap)]
        ELSE IF parsed.command \notin DOMAIN commands
        THEN [invoked |-> "", transformed |-> NoTransformed]
        ELSE [invoked |-> commands[parsed.command].transform,
              transformed |-> InvokeTransform(commands[parsed.command].transform,
                                              parsed.cleanPrompt, options)]

\* registerCommand writing a registry that all facades of the process share
FacadeRegisterCommand_Shared(name, command) ==
    /\ Usable
    /\ commands' = SetCommand(commands, name, command)
    /\ aliasMap' = SetAliases(aliasMap, name, command)
    /\ other' = [other EXCEPT !.commands = SetCommand(other.commands, name, command),
                              !.aliasMap = SetAliases(other.aliasMap, name, command)]
    /\ UNCHANGED <<stats, provider, adapter, telemetry, events,
                   temperature, maxTokens, sessionCommands, calls>>

\* UniversalLLM.registerCommand -> ModelAdapter.registerCommand
FacadeRegisterCommand(name, command) ==
    /\ Usable
    /\ commands' = SetCommand(commands, name, command)
    /\ aliasMap' = SetAliases(aliasMap, name, command)
    /\ UNCHANGED <<stats, provider, adapter, telemetry, events, other,
                   temperature, maxTokens, sessionCommands, calls>>

\* generate counting the call under the command the adapter resolves
FacadeGenerate_CountResolved(i, prompt, systemPrompt) ==
    /\ Usable
    /\ calls[i].pc = "idle"
    /\ IF i = 1 THEN TRUE ELSE calls[i-1].pc # "idle"
    /\ LET command == LeadingToken(prompt)
           parsed == parseCommand(prompt)
           g == generateTransform(prompt, systemPrompt)
       IN  /\ sessionCommands' = IF parsed.command # None
                                 THEN trackCommandUsage(parsed.command)
                                 ELSE sessionCommands
           /\ calls' = [calls EXCEPT ![i] =
                 [pc |-> IF parsed.command # None THEN "awaitTransform"
                         ELSE "awaitHttp",
                  prompt |-> prompt, systemPrompt |-> systemPrompt,
                  command |-> command, parsed |-> parsed, invoked |-> g.invoked,
                  transformed |-> g.transformed,
                  request |-> IF parsed.command # None THEN NoRequest
                              ELSE WireRequest(g.transformed),
                  posts |-> IF parsed.command # None THEN 0 ELSE 1,
                  reply |-> "", result |-> "", error |-> NoError]]
    /\ UNCHANGED <<stats, provider, adapter, telemetry, events, other,
                   temperature, maxTokens, commands, aliasMap>>

\* UniversalLLM.generate up to its first suspension: count the leading token,
\* then ModelAdapter.generate parses and either invokes the transform and
\* awaits it, or (no command) calls executePrompt, which posts the request
FacadeGenerate(i, prompt, systemPrompt) ==
    /\ Usable
    /\ calls[i].pc = "idle"
    /\ IF i = 1 THEN TRUE ELSE calls[i-1].pc # "idle"
    /\ LET command == LeadingToken(prompt)
           parsed == parseCommand(prompt)
           g == generateTransform(prompt, systemPrompt)
       IN  /\ sessionCommands' = IF command # None THEN trackCommandUsage(command)
                                 ELSE sessionCommands
           /\ calls' = [calls EXCEPT ![i] =
                 [pc |-> IF parsed.command # None THEN "awaitTransform"
                         ELSE "awaitHttp",
                  prompt |-> prompt, systemPrompt |-> systemPrompt,
                  command |-> command, parsed |-> parsed, invoked |-> g.invoked,
                  transformed |-> g.transformed,
                  request |-> IF parsed.command # None THEN NoRequest
                              ELSE WireRequest(g.transformed),
                  posts |-> IF parsed.command # None THEN 0 ELSE 1,
                  reply |-> "", result |-> "", error |-> NoError]]
    /\ UNCHANGED <<stats, provider, adapter, telemetry, events, other,
                   temperature, maxTokens, commands, aliasMap>>

\* generate looking the command up again when it resumes, and posting what
\* the transform registered by then makes of the prompt
AdapterExecute_LateLookup(i) ==
    /\ calls[i].pc = "awaitTransform"
    /\ LET late == generateTransform(calls[i].prompt, calls[i].systemPrompt)
       IN  calls' = [calls EXCEPT ![i] =
              IF late.invoked \in Throwing
              THEN [@ EXCEPT !.pc = "failed", !.error = TransformError(late.invoked)]
              ELSE IF ~late.transformed.defined
              THEN [@ EXCEPT !.pc = "failed", !.error = ProviderError("TypeError")]
              ELSE [@ EXCEPT !.pc = "awaitHttp",
                             !.request = WireRequest(late.transformed),
                             !.posts = @ + 1]]
    /\ UNCHANGED <<stats, provider, adapter, telemetry, events, other,
                   temperature, maxTokens, commands, aliasMap, sessionCommands>>

\* ModelAdapter.generate resumes with the transform's result and calls
\* executePrompt, which posts the request. A transform that threw makes the
\* await throw and generate reject with the transform's error; a result of
\* undefined makes executePrompt throw inside its try, before any request
AdapterExecute(i) ==
    /\ calls[i].pc = "awaitTransform"
    /\ calls' = [calls EXCEPT ![i] =
          IF calls[i].invoked \in Throwing
          THEN [@ EXCEPT !.pc = "failed", !.error = TransformError(calls[i].invoked)]
          ELSE IF ~calls[i].transformed.defined
          THEN [@ EXCEPT !.pc = "failed", !.error = ProviderError("TypeError")]
          ELSE [@ EXCEPT !.pc = "awaitHttp",
                         !.request = WireRequest(calls[i].transformed),
                         !.posts = @ + 1]]
    /\ UNCHANGED <<stats, provider, adapter, telemetry, events, other,
                   temperature, maxTokens, commands, aliasMap, sessionCommands>>

\* generate sending the event of every call, with or without a leading token
ProviderRespond_EveryCall(i, body) ==
    /\ calls[i].pc = "awaitHttp"
    /\ IF body = "noList"
       THEN /\ calls' = [calls EXCEPT ![i].pc = "failed",
                                      ![i].reply = body,
                                      ![i].error = ProviderError("TypeError")]
            /\ UNCHANGED events
       ELSE /\ calls' = [calls EXCEPT
                 ![i].pc = "done",
                 ![i].reply = body,
                 ![i].result = IF body = "complete" THEN "text" ELSE "undefined"]
            /\ events' = IF telemetry.enabled
                         THEN [events EXCEPT ![i] =
                                  sendTelemetry(calls[i].command, calls[i].prompt)]
                         ELSE events
    /\ UNCHANGED <<stats, provider, adapter, telemetry, other,
                   temperature, maxTokens, commands, aliasMap, sessionCommands>>

\* the provider answers 2xx. executePrompt extracts the text: without the
\* list the extraction throws inside the try; without the text it yields
\* undefined and nothing throws. UniversalLLM.generate then resumes, calls
\* sendTelemetry without awaiting it, and returns
ProviderRespond(i, body) ==
    /\ calls[i].pc = "awaitHttp"
    /\ IF body = "noList"
       THEN /\ calls' = [calls EXCEPT ![i].pc = "failed",
                                      ![i].reply = body,
                                      ![i].error = ProviderError("TypeError")]
            /\ UNCHANGED events
       ELSE /\ calls' = [calls EXCEPT
                 ![i].pc = "done",
                 ![i].reply = body,
                 ![i].result = IF body = "complete" THEN "text" ELSE "undefined"]
            /\ events' = IF telemetry.enabled /\ calls[i].command # None
                         THEN [events EXCEPT ![i] =
                                  sendTelemetry(calls[i].command, calls[i].prompt)]
                         ELSE events
    /\ UNCHANGED <<stats, provider, adapter, telemetry, other,
                   temperature, maxTokens, commands, aliasMap, sessionCommands>>

\* executePrompt's catch posting the request once more
ProviderFail_Retry(i, cause) ==
    /\ calls[i].pc = "awaitHttp"
    /\ calls' = [calls EXCEPT ![i] =
          IF calls[i].posts < 2 THEN [@ EXCEPT !.posts = @ + 1]
          ELSE [@ EXCEPT !.pc = "failed", !.error = ProviderError(cause)]]
    /\ UNCHANGED <<stats, provider, adapter, telemetry, events, other,
                   temperature, maxTokens, commands, aliasMap, sessionCommands>>

\* a failure that takes the call out of the usage counter again
ProviderFail_Uncount(i, cause) ==
    /\ calls[i].pc = "awaitHttp"
    /\ calls' = [calls EXCEPT ![i].pc = "failed", ![i].error = ProviderError(cause)]
    /\ sessionCommands' =
          IF calls[i].command = None THEN sessionCommands
          ELSE [sessionCommands EXCEPT ![calls[i].command] = @ - 1]
    /\ UNCHANGED <<stats, provider, adapter, telemetry, events, other,
                   temperature, maxTokens, commands, aliasMap>>

\* the HTTP call fails: executePrompt's catch throws the provider's error,
\* generate rejects
ProviderFail(i, cause) ==
    /\ calls[i].pc = "awaitHttp"
    /\ calls' = [calls EXCEPT ![i].pc = "failed", ![i].error = ProviderError(cause)]
    /\ UNCHANGED <<stats, provider, adapter, telemetry, events, other,
                   temperature, maxTokens, commands, aliasMap, sessionCommands>>

\* the telemetry endpoint answers: sendTelemetry's await returns
TelemetryDelivered(i) ==
    /\ events[i].status = "inFlight"
    /\ events' = [events EXCEPT ![i].status = "delivered"]
    /\ UNCHANGED <<stats, provider, adapter, telemetry, other,
                   temperature, maxTokens, commands, aliasMap, sessionCommands, calls>>

\* a telemetry failure rejecting the generate call it belongs to
TelemetryFailed_Propagates(i) ==
    /\ events[i].status = "inFlight"
    /\ events' = [events EXCEPT ![i].status = "failed"]
    /\ calls' = [calls EXCEPT ![i].pc = "failed",
                              ![i].result = "",
                              ![i].error = [raised |-> TRUE, tag |-> "",
                                            message |-> "Telemetry error"]]
    /\ UNCHANGED <<stats, provider, adapter, telemetry, other,
                   temperature, maxTokens, commands, aliasMap, sessionCommands>>

\* the telemetry request fails: sendTelemetry's catch logs a warning
TelemetryFailed(i) ==
    /\ events[i].status = "inFlight"
    /\ events' = [events EXCEPT ![i].status = "failed"]
    /\ UNCHANGED <<stats, provider, adapter, telemetry, other,
                   temperature, maxTokens, commands, aliasMap, sessionCommands, calls>>

\* UniversalLLM.setTelemetryEnabled
SetTelemetryEnabled(enabled) ==
    /\ Usable
    /\ telemetry.enabled # enabled
    /\ telemetry' = [telemetry EXCEPT !.enabled = enabled]
    /\ UNCHANGED <<stats, provider, adapter, events, other,
                   temperature, maxTokens, commands, aliasMap, sessionCommands, calls>>

\* getCommandUsageStats handing the counter out and starting a new one
GetCommandUsageStats_Clears ==
    /\ Usable
    /\ stats' = sessionCommands
    /\ sessionCommands' = EmptyMap
    /\ UNCHANGED <<provider, adapter, telemetry, events, other, temperature,
                   maxTokens, commands, aliasMap, calls>>

\* UniversalLLM.getCommandUsageStats: a new Map with the counter's entries
GetCommandUsageStats ==
    /\ Usable
    /\ stats' = sessionCommands
    /\ UNCHANGED <<provider, adapter, telemetry, events, other, temperature,
                   maxTokens, commands, aliasMap, sessionCommands, calls>>

\* the command name parseCommand resolves prompt to in a given registry
ResolveIn(cmds, am, prompt) ==
    LET match == MatchCommand(prompt)
        commandName == IF match.command \in DOMAIN am
                       THEN am[match.command] ELSE match.command
    IN  IF match.matched /\ commandName \in DOMAIN cmds THEN commandName ELSE None

\* registerCommand on the second facade
OtherRegisterCommand(name, command) ==
    /\ other' = [other EXCEPT !.commands = SetCommand(other.commands, name, command),
                              !.aliasMap = SetAliases(other.aliasMap, name, command)]
    /\ UNCHANGED <<stats, provider, adapter, telemetry, events,
                   temperature, maxTokens, commands, aliasMap, sessionCommands, calls>>

\* generate on the second facade, up to the transform it selects: the leading
\* token is counted in its own counter and resolved in its own registry
OtherGenerate(prompt) ==
    /\ other.calls < MaxOtherCalls
    /\ LET command == LeadingToken(prompt)
           resolved == ResolveIn(other.commands, other.aliasMap, prompt)
           currentCount == IF command \in DOMAIN other.sessionCommands
                           THEN other.sessionCommands[command] ELSE 0
       IN  other' = [other EXCEPT
                !.calls = @ + 1,
                !.prompt = prompt,
                !.resolved = resolved,
                !.invoked = IF resolved = None THEN ""
                            ELSE other.commands[resolved].transform,
                !.sessionCommands =
                    IF command = None THEN @
                    ELSE [k \in DOMAIN @ \cup {command} |->
                             IF k = command THEN currentCount + 1 ELSE @[k]]]
    /\ UNCHANGED <<stats, provider, adapter, telemetry, events,
                   temperature, maxTokens, commands, aliasMap, sessionCommands, calls>>

Calls == 1..MaxCalls

\* options.temperature and options.maxTokens given to the constructor; 0
\* stands for an option that is absent (or 0): `options.x || default`
TemperatureOptions == {0, 5, 10, 70, 100, 150}
MaxTokensOptions == {0, 512, 1024, 8192}

\* the state after `new UniversalLLM({provider, apiKey, temperature,
\* maxTokens})`, and after a second `new UniversalLLM` for a supported
\* provider; when createAdapter throws there is no facade, no registry and no
\* counter
Construct(optTemperature, optMaxTokens) ==
    /\ provider \in ProviderIds
    /\ adapter = createAdapter(provider)
    /\ telemetry = [enabled |-> TRUE, anonymousId |-> "anon", sessionId |-> "sess"]
    /\ events = [i \in Calls |-> NoEvent]
    /\ other = [commands |-> CoreCommands, aliasMap |-> EmptyMap,
                sessionCommands |-> EmptyMap, calls |-> 0, prompt |-> <<>>,
                resolved |-> None, invoked |-> ""]
    /\ temperature = IF optTemperature # 0 THEN optTemperature ELSE DefaultTemperature
    /\ maxTokens = IF optMaxTokens # 0 THEN optMaxTokens ELSE DefaultMaxTokens
    /\ commands = IF createAdapter(provider).error = "" THEN CoreCommands ELSE EmptyMap
    /\ aliasMap = EmptyMap
    /\ sessionCommands = EmptyMap
    /\ stats = EmptyMap
    /\ calls = [i \in Calls |-> IdleCall]

\* the state after `new UniversalLLM({provider, apiKey})`
Init == Construct(0, 0)

\* the state after construction with a temperature and a max-token cap
ConfigInit ==
    \E optTemperature \in TemperatureOptions, optMaxTokens \in MaxTokensOptions :
        Construct(optTemperature, optMaxTokens)

Register == \E r \in FacadeRegistrations : FacadeRegisterCommand(r.name, r.command)

Generate ==
    \E i \in Calls, prompt \in FacadePrompts :
        FacadeGenerate(i, prompt, "be terse")

Execute == \E i \in Calls : AdapterExecute(i)

Respond == \E i \in Calls : ProviderRespond(i, "complete")

Fail == \E i \in Calls : ProviderFail(i, "Network Error")

Next == Register \/ Generate \/ Execute \/ Respond \/ Fail

\* generate calls interleaved at their suspension points
Spec == Init /\ [][Next]_vars

ParseRegister == \E r \in Registrations : FacadeRegisterCommand(r.name, r.command)

\* one generate call, its prompt drawn from AllPrompts
ParseGenerate ==
    \E prompt \in AllPrompts, systemPrompt \in SystemPrompts :
        FacadeGenerate(1, prompt, systemPrompt)

NextParse == ParseRegister \/ ParseGenerate \/ Execute \/ Respond \/ Fail

\* the parser and the transform applied to every prompt under every registry
ParseSpec == Init /\ [][NextParse]_vars

ErrorRegister == \E r \in FaultyRegistrations : FacadeRegisterCommand(r.name, r.command)

ErrorGenerate ==
    \E i \in Calls, prompt \in ErrorPrompts : FacadeGenerate(i, prompt, "")

RespondAny == \E i \in Calls, body \in ResponseBodies : ProviderRespond(i, body)

FailAny == \E i \in Calls, cause \in FailureCauses : ProviderFail(i, cause)

NextError == ErrorRegister \/ ErrorGenerate \/ Execute \/ RespondAny \/ FailAny

\* generate calls with every way the transform and the provider can fail
ErrorSpec == Init /\ [][NextError]_vars

TelemetryGenerate ==
    \E i \in Calls, prompt \in FacadePrompts : FacadeGenerate(i, prompt, "")

Delivered == \E i \in Calls : TelemetryDelivered(i)

Dropped == \E i \in Calls : TelemetryFailed(i)

Toggle == \E enabled \in BOOLEAN : SetTelemetryEnabled(enabled)

NextTelemetry ==
    TelemetryGenerate \/ Execute \/ Respond \/ Fail \/ Delivered \/ Dropped \/ Toggle

\* generate calls with their telemetry requests
TelemetrySpec == Init /\ [][NextTelemetry]_vars

OtherRegister == \E r \in FacadeRegistrations : OtherRegisterCommand(r.name, r.command)

\* the prompts given to the two facades
TwoPrompts == {P_Deep, P_Alias, P_ThinkHello}

OtherCall == \E prompt \in TwoPrompts : OtherGenerate(prompt)

OneGenerate == \E prompt \in TwoPrompts : FacadeGenerate(1, prompt, "")

NextTwo == Register \/ OneGenerate \/ Execute \/ Respond \/ Fail \/ OtherRegister \/ OtherCall

\* two facades of one process, each registering and generating
TwoFacadeSpec == Init /\ [][NextTwo]_vars

ConfigGenerate ==
    \E prompt \in ConfigPrompts, systemPrompt \in SystemPrompts :
        FacadeGenerate(1, prompt, systemPrompt)

Stats == GetCommandUsageStats

NextConfig == ConfigGenerate \/ Execute \/ Respond \/ Fail \/ Toggle \/ Stats

\* one generate call on a facade constructed with a temperature and a
\* max-token cap, with the usage statistics read and telemetry toggled
ConfigSpec == ConfigInit /\ [][NextConfig]_vars

-----------------------------------------------------------------------------
(* Properties *)

Started(i) == calls[i].pc # "idle"

Slash == <<"/">>

\* the prompt without its leading "/token", trimmed
WithoutToken(prompt) ==
    Trim(SubSeq(prompt, Len(LeadingToken(prompt)) + 2, Len(prompt)))

\* the leading token stands for no command: it is neither a name nor an alias
Unresolved(prompt) ==
    \/ LeadingToken(prompt) = None
    \/ /\ LeadingToken(prompt) \notin DOMAIN commands
       /\ LeadingToken(prompt) \notin DOMAIN aliasMap

\* C1: for a prompt whose leading token resolves to a registered command, the
\* clean prompt is the original text with only the leading command token
\* removed, trimmed: the free text after the token is kept.
C1_CleanPromptKeepsText ==
    \A i \in Calls :
        (Started(i) /\ calls[i].parsed.command # None)
            => calls[i].parsed.cleanPrompt = WithoutToken(calls[i].prompt)

\* C2: a prompt without a leading token, or whose token is neither a name nor
\* an alias, parses to no command, itself as clean prompt and no parameters;
\* no transform is invoked and the request carries the original prompt as the
\* user prompt and the caller's system prompt.
C2_UnresolvedIsPlainText ==
    /\ \A p \in AllPrompts :
          Unresolved(p) =>
              /\ parseCommand(p) =
                    [command |-> None, cleanPrompt |-> p, parameters |-> EmptyMap]
              /\ \A s \in SystemPrompts :
                    /\ generateTransform(p, s).invoked = ""
                    /\ generateTransform(p, s).transformed.userPrompt = p
    /\ \A i \in Calls :
          (Started(i) /\ Unresolved(calls[i].prompt)) =>
              /\ calls[i].parsed.command = None
              /\ calls[i].parsed.cleanPrompt = calls[i].prompt
              /\ calls[i].parsed.parameters = EmptyMap
              /\ calls[i].invoked = ""
              /\ calls[i].pc \in {"awaitHttp", "done", "failed"}
              /\ calls[i].request.user = calls[i].prompt
              /\ calls[i].request.system =
                    SystemText(calls[i].systemPrompt, "", Undefined)
              /\ calls[i].request.hasSystem = (calls[i].systemPrompt # "")

C2_Witness ==
    \E i \in Calls :
        /\ calls[i].prompt = P_Unknown
        /\ calls[i].systemPrompt = "be terse"
        /\ calls[i].pc = "done"

\* every token a counter or the registry can name
Tokens ==
    DOMAIN sessionCommands \cup DOMAIN commands \cup DOMAIN aliasMap
        \cup ({LeadingToken(p) : p \in AllPrompts} \ {None})

UsageCount(X) == IF X \in DOMAIN sessionCommands THEN sessionCommands[X] ELSE 0

\* C3 (as amended): the count of X is the number of generate calls whose
\* prompt has X itself as leading token; X has no entry before the first one.
C3_CountByLeadingToken ==
    \A X \in Tokens :
        LET n == Cardinality({i \in Calls :
                     Started(i) /\ LeadingToken(calls[i].prompt) = X})
        IN  /\ UsageCount(X) = n
            /\ X \in DOMAIN sessionCommands <=> n > 0

\* C3 (as stated): after N calls whose prompt uses command X the count of X
\* is N.
C3_CountByCommand ==
    \A X \in DOMAIN commands :
        UsageCount(X) =
            Cardinality({i \in Calls : Started(i) /\ calls[i].parsed.command = X})

C3_Witness ==
    /\ \E i \in Calls : calls[i].command = N_d /\ calls[i].parsed.command = N_deep
    /\ \E i \in Calls : calls[i].command = N_think /\ calls[i].pc = "failed"
    /\ UsageCount(N_d) = 1 /\ UsageCount(N_think) = 1

\* C4: every registered name resolves, as a leading token, to its own
\* command, and every alias a registered command declares resolves to it.
C4_NamesAndAliasesResolve ==
    \A n \in DOMAIN commands :
        /\ parseCommand(Slash \o n).command = n
        /\ \A a \in Range(commands[n].aliases) :
              parseCommand(Slash \o a).command = n

\* C5: a generate call whose leading token is a registered name invokes the
\* transform registered under that name at the time of the call.
C5_ReRegistrationWins ==
    [][\A i \in Calls :
          (calls[i].pc = "idle" /\ calls'[i].pc # "idle"
              /\ calls'[i].command \in DOMAIN commands)
            => calls'[i].invoked = commands[calls'[i].command].transform]_vars

\* C6: the command name parseCommand returns, when present, is registered;
\* a token that stands for nothing registered gives no command.
C6_ParsedCommandIsRegistered ==
    /\ \A p \in AllPrompts :
          /\ parseCommand(p).command # None
                => parseCommand(p).command \in DOMAIN commands
          /\ Unresolved(p) => parseCommand(p).command = None
    /\ \A i \in Calls :
          (Started(i) /\ calls[i].parsed.command # None)
              => calls[i].parsed.command \in DOMAIN commands

C6_Witness ==
    \E i \in Calls :
        /\ calls[i].prompt = P_Alias
        /\ calls[i].parsed.command = N_wide
        /\ N_deep \in DOMAIN commands

-----------------------------------------------------------------------------
(* Properties of the parameter mapping *)

Dashes == <<"-", "-">>

\* the whitespace-separated words of s, in order
RECURSIVE Words(_)
Words(s) ==
    LET b == FirstNotIn(s, 1, Space)
        e == FirstIn(s, b, Space)
    IN  IF b > Len(s) THEN <<>>
        ELSE <<SubSeq(s, b, e - 1)>> \o Words(SubSeq(s, e, Len(s)))

\* w is --name or --name=value
IsParamToken(w) ==
    /\ Len(w) >= 3 /\ w[1] = "-" /\ w[2] = "-" /\ w[3] \in WordChars
    /\ LET ne == FirstNotIn(w, 3, WordChars)
       IN  ne = Len(w) + 1 \/ (w[ne] = "=" /\ ne < Len(w))

TokenName(w) == SubSeq(w, 3, FirstNotIn(w, 3, WordChars) - 1)

TokenHasValue(w) == FirstNotIn(w, 3, WordChars) <= Len(w)

TokenValue(w) ==
    IF TokenHasValue(w)
    THEN StringValue(SubSeq(w, FirstNotIn(w, 3, WordChars) + 1, Len(w)))
    ELSE TrueValue

\* every "--" of s starts a word that is a parameter token
WellFormed(s) ==
    LET ws == Words(s)
    IN  \A k \in 1..Len(ws) : IsInfix(Dashes, ws[k]) => IsParamToken(ws[k])

\* the declared defaults overlaid with the tokens of s, the last token of a
\* name giving its value
ExpectedParameters(declared, s) ==
    LET ws == Words(s)
        toks == {k \in 1..Len(ws) : IsParamToken(ws[k])}
        supplied == {TokenName(ws[k]) : k \in toks}
        defaulted == {j \in 1..Len(declared) : declared[j].hasDefault}
        last(n) == CHOOSE k \in toks :
                       /\ TokenName(ws[k]) = n
                       /\ \A m \in toks : TokenName(ws[m]) = n => m <= k
        dflt(n) == CHOOSE j \in defaulted : declared[j].name = n
    IN  [n \in supplied \cup {declared[j].name : j \in defaulted} |->
            IF n \in supplied THEN TokenValue(ws[last(n)])
            ELSE declared[dflt(n)].default]

\* call i resolved a command whose registration is still the one it used
Current(i) ==
    /\ Started(i)
    /\ calls[i].parsed.command # None
    /\ calls[i].parsed.command \in DOMAIN commands
    /\ calls[i].invoked = commands[calls[i].parsed.command].transform

Declared(i) == commands[calls[i].parsed.command].parameters

Rest(i) == MatchCommand(calls[i].prompt).rest

SuppliedWithValue(s) ==
    LET ws == Words(s)
    IN  {TokenName(ws[k]) :
            k \in {m \in 1..Len(ws) : IsParamToken(ws[m]) /\ TokenHasValue(ws[m])}}

\* C8: '/loop --iterations=5 improve this' gives {iterations: 5}, and a
\* value supplied as --name=value for a declared parameter whose default is
\* a number is a number in the mapping.
C8_SuppliedNumberIsNumber ==
    \A i \in Calls :
        Current(i) =>
            /\ calls[i].prompt = P_LoopFive =>
                  calls[i].parsed.parameters = (N_iterations :> NumberValue(5))
            /\ \A j \in 1..Len(Declared(i)) :
                  (/\ Declared(i)[j].hasDefault
                   /\ Declared(i)[j].default.t = "number"
                   /\ Declared(i)[j].name \in SuppliedWithValue(Rest(i)))
                    => calls[i].parsed.parameters[Declared(i)[j].name].t = "number"

\* the names of the tokens of s that the command does not declare
Undeclared(declared, s) ==
    LET ws == Words(s)
    IN  {TokenName(ws[k]) :
            k \in {m \in 1..Len(ws) :
                      /\ IsParamToken(ws[m])
                      /\ TokenName(ws[m]) \notin
                            {declared[j].name : j \in 1..Len(declared)}}}

Captured(parameters, declared, s) ==
    LET expected == ExpectedParameters(declared, s)
    IN  \A n \in Undeclared(declared, s) :
            n \in DOMAIN parameters /\ parameters[n] = expected[n]

\* C9 (as amended): for a resolved command that declares at least one
\* parameter, a token whose name is not declared is captured in the mapping.
C9_UndeclaredCaptured ==
    /\ \A p \in AllPrompts :
          LET r == parseCommand(p)
              rest == MatchCommand(p).rest
          IN  (/\ r.command # None
               /\ WellFormed(rest)
               /\ commands[r.command].parameters # <<>>)
                => Captured(r.parameters, commands[r.command].parameters, rest)
    /\ \A i \in Calls :
          (Current(i) /\ WellFormed(Rest(i)) /\ Declared(i) # <<>>)
              => Captured(calls[i].parsed.parameters, Declared(i), Rest(i))

\* C9 (as stated): for every resolved command, whether or not it declares
\* parameters, a token whose name is not declared is captured.
C9_UndeclaredCapturedForEveryCommand ==
    \A i \in Calls :
        (Current(i) /\ WellFormed(Rest(i)))
            => Captured(calls[i].parsed.parameters, Declared(i), Rest(i))

C9_Witness ==
    \E i \in Calls :
        /\ calls[i].prompt = P_LoopExtra
        /\ Current(i)
        /\ calls[i].parsed.parameters =
              (N_iterations :> NumberValue(3)) @@ (N_foo :> StringValue(<<"b", "a", "r">>))
        /\ calls[i].pc = "awaitHttp"

\* the command token that follows the leading one, None when there is none
SecondToken(prompt) ==
    IF LeadingToken(prompt) = None THEN None
    ELSE LeadingToken(WithoutToken(prompt))

\* C10: for a prompt with several leading command tokens the first token
\* selects the transform and every later token stays in the clean prompt and
\* in the user prompt sent to the provider.
C10_LaterTokensReachProvider ==
    \A i \in Calls :
        (/\ Current(i)
         /\ SecondToken(calls[i].prompt) \in DOMAIN commands
         /\ calls[i].pc \in {"awaitHttp", "done"})
          => /\ LeadingToken(calls[i].prompt) \in DOMAIN aliasMap
                \/ calls[i].parsed.command = LeadingToken(calls[i].prompt)
             /\ IsInfix(Slash \o SecondToken(calls[i].prompt), calls[i].parsed.cleanPrompt)
             /\ IsInfix(Slash \o SecondToken(calls[i].prompt), calls[i].request.user)

-----------------------------------------------------------------------------
(* Properties of chaining, construction, failures and telemetry *)

\* the transforms applied to the request of call i
AppliedTransforms(i) == {calls[i].invoked} \ {""}

\* whitespace follows the leading token
SpaceAfterToken(prompt) ==
    /\ Len(prompt) >= Len(LeadingToken(prompt)) + 2
    /\ prompt[Len(LeadingToken(prompt)) + 2] \in Space

\* C11: for a prompt that starts with several registered command tokens the
\* (separated by whitespace) the behaviour of every command of the chain is
\* applied to the request: the transform of the first and the transform of
\* the second are both applied.
C11_EveryChainedCommandApplied ==
    \A i \in Calls :
        (/\ Current(i)
         /\ calls[i].parsed.command = LeadingToken(calls[i].prompt)
         /\ SpaceAfterToken(calls[i].prompt)
         /\ SecondToken(calls[i].prompt) \in DOMAIN commands)
          => {commands[LeadingToken(calls[i].prompt)].transform,
              commands[SecondToken(calls[i].prompt)].transform}
                 \subseteq AppliedTransforms(i)

SixNames == {N_think, N_fast, N_loop, N_reflect, N_collapse, N_fork}

\* no registerCommand has been called on the facade since its construction
Pristine ==
    /\ Usable
    /\ aliasMap = EmptyMap
    /\ \A n \in DOMAIN commands : commands[n].transform \in BuiltIn

HttpFailed(i) ==
    /\ calls[i].posts >= 1
    /\ \/ calls[i].pc = "failed"
       \/ calls[i].reply \in {"noList", "noText"}

\* C14: when the provider call fails (no connection, a status outside 2xx,
\* or a reply lacking the expected fields) generate raises one error tagged
\* with the provider and carrying the underlying message, returns nothing,
\* and the request was posted once.
C14_HttpFailureRaisesOneError ==
    \A i \in Calls :
        HttpFailed(i) =>
            /\ calls[i].pc = "failed"
            /\ calls[i].error.raised
            /\ calls[i].error.tag = ProviderTag
            /\ calls[i].error.message \in FailureCauses \cup {"TypeError"}
            /\ calls[i].result = ""
            /\ calls[i].posts = 1

\* the started calls with the leading token of call i
SameToken(i) == {j \in Calls : Started(j) /\ calls[j].command = calls[i].command}

\* C15 (as amended): a call with a leading token whose provider request
\* fails raises an error and stays counted under its leading token.
C15_FailedCallStaysCounted ==
    \A i \in Calls :
        (calls[i].pc = "failed" /\ calls[i].command # None) =>
            /\ calls[i].error.raised
            /\ calls[i].posts = 1
            /\ UsageCount(calls[i].command) = Cardinality(SameToken(i))

\* C15 (as stated): a call using command X whose provider request fails
\* stays counted under X.
C15_FailedCallCountedByCommand ==
    \A i \in Calls :
        (calls[i].pc = "failed" /\ calls[i].parsed.command # None) =>
            /\ calls[i].error.raised
            /\ UsageCount(calls[i].parsed.command) >= 1

C15_Witness ==
    \E i \in Calls :
        /\ calls[i].pc = "failed"
        /\ calls[i].command = N_think
        /\ calls[i].error = ProviderError("Network Error")
        /\ UsageCount(N_think) = 2

\* the network requests call i has issued: to the provider and to the
\* telemetry endpoint
Outbound(i) == calls[i].posts + (IF events[i].status # "none" THEN 1 ELSE 0)

\* C16 (as amended): a generate call posts at most one request to the
\* provider, only from executePrompt once parsing and the transform are
\* over; its only other request is the telemetry request, issued after the
\* provider answered a call with a leading token.
C16_OneProviderRequest ==
    \A i \in Calls :
        /\ calls[i].posts <= 1
        /\ calls[i].pc \in {"idle", "awaitTransform"} => calls[i].posts = 0
        /\ calls[i].posts = 1 =>
              /\ calls[i].pc \in {"awaitHttp", "done", "failed"}
              /\ calls[i].transformed.defined
              /\ calls[i].request = WireRequest(calls[i].transformed)
        /\ events[i].status # "none" =>
              (calls[i].pc = "done" /\ calls[i].posts = 1 /\ calls[i].command # None)
        /\ Outbound(i) <= 2

\* C16 (as stated): a generate call issues at most one network request.
C16_AtMostOneRequest == \A i \in Calls : Outbound(i) <= 1

C16_Witness ==
    \E i \in Calls :
        /\ calls[i].pc = "done"
        /\ calls[i].invoked = "transformThink"
        /\ calls[i].posts = 1
        /\ events[i].status = "delivered"

\* C17: the only error generate raises is the provider's error of a failed
\* HTTP call: a call that raised an error had posted its request, and the
\* error is tagged with the provider.
C17_OnlyHttpErrorsSurface ==
    \A i \in Calls :
        calls[i].error.raised =>
            /\ calls[i].posts = 1
            /\ calls[i].error.tag = ProviderTag

\* C18: once generate has dispatched the telemetry request the call has
\* returned the provider's text, and it stays so whether that request is in
\* flight, delivered or failed.
C18_TelemetryNeverAltersResult ==
    \A i \in Calls :
        events[i].status # "none" =>
            /\ calls[i].pc = "done"
            /\ calls[i].result = "text"
            /\ ~calls[i].error.raised

C18_Witness ==
    /\ \E i \in Calls :
          /\ events[i].status = "failed"
          /\ calls[i].pc = "done" /\ calls[i].result = "text"
    /\ \E i \in Calls :
          /\ events[i].status = "inFlight"
          /\ calls[i].pc = "done" /\ calls[i].result = "text"

\* C19: a telemetry event carries the command name, the provider, the prompt
\* length and the two ids; its command is the name of a registered command
\* and nothing else of the prompt, and the API key is in no field.
C19_EventCarriesNoPromptText ==
    \A i \in Calls :
        events[i].status # "none" =>
            /\ events[i].command \in DOMAIN commands
            /\ events[i].provider = TelemetryProvider
            /\ events[i].prompt_length = Len(calls[i].prompt)
            /\ ApiKey \notin {events[i].provider, events[i].anonymousId,
                               events[i].sessionId}

\* C20: a step that changes the registry of one facade leaves the registry,
\* the alias table and the counter of the other as they are, and each
\* facade resolves a prompt in its own registry.
C20_RegistryIsInstanceScoped ==
    [][/\ (commands' # commands \/ aliasMap' # aliasMap) => other' = other
       /\ (other'.commands # other.commands \/ other'.aliasMap # other.aliasMap)
             => (/\ commands' = commands /\ aliasMap' = aliasMap
                 /\ sessionCommands' = sessionCommands)
       /\ other'.calls # other.calls =>
             /\ other'.resolved \in DOMAIN other.commands \cup {None}
             /\ other'.commands = other.commands
             /\ UNCHANGED <<commands, aliasMap, sessionCommands>>]_vars

C20_Witness ==
    /\ N_deep \in DOMAIN commands
    /\ N_deep \notin DOMAIN other.commands
    /\ other.prompt = P_Deep
    /\ other.resolved = None
    /\ other.sessionCommands = (N_deep :> 1)
    /\ sessionCommands = EmptyMap

Invoked(i, transform) ==
    Started(i) /\ calls[i].invoked = transform /\ calls[i].transformed.defined

\* C21 (as amended): transformFast gives a max-token cap no greater than the
\* configured default cap, and a temperature that is at least the configured
\* default when that default is at most the ceiling 1.0, and the ceiling
\* itself when the default is above it.
C21_FastCapsTokensWithinCeiling ==
    \A i \in Calls :
        Invoked(i, "transformFast") =>
            LET mp == calls[i].transformed.modelParameters
            IN  /\ mp.max_tokens <= maxTokens
                /\ IF temperature <= TemperatureCeiling
                   THEN mp.temperature >= temperature
                   ELSE mp.temperature = TemperatureCeiling

\* C21 (as stated): transformFast gives a max-token cap no greater than the
\* configured default cap and a temperature no lower than the configured
\* default temperature, for every configured default.
C21_FastNeverLowersTemperature ==
    \A i \in Calls :
        Invoked(i, "transformFast") =>
            LET mp == calls[i].transformed.modelParameters
            IN  /\ mp.max_tokens <= maxTokens
                /\ mp.temperature >= temperature

C21_Witness ==
    /\ temperature = 5 /\ maxTokens = 8192
    /\ Invoked(1, "transformFast")
    /\ calls[1].transformed.modelParameters.temperature = 15
    /\ calls[1].transformed.modelParameters.max_tokens = 1024
    /\ calls[1].pc = "done"

\* C22 (as amended): transformThink gives a temperature that is at most the
\* configured default when that default is at least the floor 0.1, and the
\* floor itself when the default is below it; it is never below the floor.
C22_ThinkLowersTemperatureToFloor ==
    \A i \in Calls :
        Invoked(i, "transformThink") =>
            LET mp == calls[i].transformed.modelParameters
            IN  /\ mp.temperature >= TemperatureFloor
                /\ IF temperature >= TemperatureFloor
                   THEN mp.temperature <= temperature
                   ELSE mp.temperature = TemperatureFloor

\* C22 (as stated): transformThink gives a temperature no higher than the
\* configured default temperature, for every configured default.
C22_ThinkNeverRaisesTemperature ==
    \A i \in Calls :
        Invoked(i, "transformThink") =>
            calls[i].transformed.modelParameters.temperature <= temperature

C22_Witness ==
    /\ temperature = 150
    /\ provider = "openai"
    /\ Invoked(1, "transformThink")
    /\ calls[1].transformed.modelParameters.temperature = 130
    /\ calls[1].request.temperature = 130

\* the text `${v}` writes is an integer numeral
IsIntegerText(v) ==
    \/ v.t = "number"
    \/ v.t = "string" /\ v.s # <<>> /\ Range(v.s) \subseteq Digits

\* C23: the iteration count transformLoop writes into the system prompt is an
\* integer: 3 when the parsed parameters hold the default, otherwise the
\* supplied value as an integer; a /loop call posts one request.
C23_LoopCountIsInteger ==
    \A i \in Calls :
        Invoked(i, "transformLoop") =>
            LET count == calls[i].transformed.systemPrompt.arg
            IN  /\ IsIntegerText(count)
                /\ Get(calls[i].parsed.parameters, N_iterations) = NumberValue(3)
                      => count = NumberValue(3)
                /\ calls[i].posts <= 1

NoThinkMarker == <<" ", "/", "n", "o", "_", "t", "h", "i", "n", "k">>

\* transformCollapse's result but for the user prompt
CollapseKeepsDefaults(i) ==
    LET t == calls[i].transformed
        mp == t.modelParameters
    IN  /\ t.systemPrompt = SystemText(calls[i].systemPrompt, "", Undefined)
        /\ mp.temperature = temperature
        /\ mp.max_tokens = maxTokens
        /\ "enable_thinking" \in DOMAIN mp => mp.enable_thinking = FALSE

\* C24 (as amended): transformCollapse returns the caller's system prompt
\* with no addendum, a temperature and a max-token cap equal to the
\* configured defaults, and never the reasoning toggle set to true; the user
\* prompt is the one it was given, to which the Qwen adapter appends the
\* in-text marker ' /no_think'.
C24_CollapseKeepsDefaultsQwenMarks ==
    \A i \in Calls :
        Invoked(i, "transformCollapse") =>
            /\ CollapseKeepsDefaults(i)
            /\ calls[i].transformed.userPrompt =
                  IF adapter.class = "QwenAdapter"
                  THEN calls[i].parsed.cleanPrompt \o NoThinkMarker
                  ELSE calls[i].parsed.cleanPrompt

\* C24 (as stated): transformCollapse returns the caller's system prompt with
\* no addendum, the user prompt it was given unchanged, the configured
\* defaults, and never the reasoning toggle set to true.
C24_CollapseLeavesPromptUnchanged ==
    \A i \in Calls :
        Invoked(i, "transformCollapse") =>
            /\ CollapseKeepsDefaults(i)
            /\ calls[i].transformed.userPrompt = calls[i].parsed.cleanPrompt

C24_Witness ==
    /\ adapter.class = "QwenAdapter"
    /\ temperature = 5 /\ maxTokens = 512
    /\ Invoked(1, "transformCollapse")
    /\ calls[1].systemPrompt = "be terse"
    /\ calls[1].request.temperature = 5 /\ calls[1].request.max_tokens = 512
    /\ calls[1].request.user = NoThinkMarker
    /\ calls[1].pc = "done"

\* a step in which call i dispatches its telemetry event
Dispatches(i) == events[i].status = "none" /\ events'[i].status # "none"

\* a step in which the provider's answer to call i arrives and generate
\* returns its text
Arrives(i) == calls[i].pc = "awaitHttp" /\ calls'[i].pc = "done"

Configuration == <<provider, adapter, temperature, maxTokens, commands, aliasMap>>

\* C26: a step of a generate call, successful or failed, and a call of
\* getCommandUsageStats leave the adapter configuration, the registry, the
\* alias table and the telemetry settings as they are; the usage counter
\* changes only in a step of a generate call, and getCommandUsageStats
\* changes neither the counter nor any call.
C26_GenerateChangesOnlyCounter ==
    [][/\ (calls' # calls \/ stats' # stats) =>
             (Configuration' = Configuration /\ telemetry' = telemetry)
       /\ calls' = calls => sessionCommands' = sessionCommands
       /\ stats' # stats =>
             (stats' = sessionCommands /\ UNCHANGED <<calls, events>>)]_vars

C26_Witness ==
    /\ temperature = 150 /\ maxTokens = 512
    /\ adapter.model = "gpt-4" /\ adapter.apiKey = ApiKey
    /\ calls[1].pc = "failed" /\ calls[1].invoked = "transformFast"
    /\ sessionCommands = (N_fast :> 1)
    /\ stats = sessionCommands
    /\ commands = CoreCommands /\ aliasMap = EmptyMap

\* C27: the registered names and the aliases only grow, an alias keeps
\* resolving after its name is registered again without it, and every alias
\* maps to a registered name.
C27_RegistryOnlyGrows ==
    [][/\ DOMAIN commands \subseteq DOMAIN commands'
       /\ DOMAIN aliasMap \subseteq DOMAIN aliasMap'
       /\ \A a \in DOMAIN aliasMap' : aliasMap'[a] \in DOMAIN commands']_vars

C27_Witness ==
    /\ N_deep \in DOMAIN commands
    /\ commands[N_deep].transform = "customDeep2"
    /\ commands[N_deep].aliases = <<>>
    /\ aliasMap = (N_d :> N_deep)
    /\ calls[1].prompt = P_Alias
    /\ calls[1].parsed.command = N_deep
    /\ calls[1].invoked = "customDeep2"

\* the raw leading tokens of the generate calls made so far
TokensSeen ==
    {LeadingToken(calls[i].prompt) : i \in {j \in Calls : Started(j)}} \ {None}

\* C28: the keys of the usage counter are exactly the raw leading tokens of
\* the prompts seen so far, whatever they resolve to: a token that is not
\* registered is a key, and a call made through an alias is counted under
\* the alias and not under the command.
C28_KeysAreRawLeadingTokens ==
    /\ DOMAIN sessionCommands = TokensSeen
    /\ \A i \in Calls :
          (Started(i) /\ calls[i].command # None) =>
              /\ sessionCommands[calls[i].command] >= 1
              /\ (calls[i].parsed.command \notin TokensSeen
                    => calls[i].parsed.command \notin DOMAIN sessionCommands)

C28_Witness ==
    /\ \E i \in Calls : calls[i].prompt = P_Unknown /\ calls[i].parsed.command = None
    /\ \E i \in Calls : calls[i].prompt = P_Alias /\ calls[i].parsed.command = N_deep
    /\ sessionCommands = (LeadingToken(P_Unknown) :> 1) @@ (N_d :> 1)

\* a step in which generate call i starts
Starts(i) == calls[i].pc = "idle" /\ calls'[i].pc # "idle"

\* the counter after the step, read at key X
UsageCountAfter(X) == IF X \in DOMAIN sessionCommands' THEN sessionCommands'[X] ELSE 0

\* C29 (as amended): a step that starts a generate call whose prompt has the
\* leading token X raises the count of X by exactly one, whatever calls are
\* in flight, and leaves the other counts; no other step changes the counter.
C29_NoLostUpdateByToken ==
    [][/\ \A i \in Calls :
             Starts(i) =>
                 \A X \in (Tokens \cup {calls'[i].command}) \ {None} :
                     UsageCountAfter(X) =
                         UsageCount(X) + (IF calls'[i].command = X THEN 1 ELSE 0)
       /\ (\A i \in Calls : ~Starts(i)) => sessionCommands' = sessionCommands]_vars

\* C29 (as stated): a step that starts a generate call using command X
\* raises the count of X by exactly one.
C29_NoLostUpdateByCommand ==
    [][\A i \in Calls :
          (Starts(i) /\ calls'[i].parsed.command # None) =>
              UsageCountAfter(calls'[i].parsed.command) =
                  UsageCount(calls'[i].parsed.command) + 1]_vars

C29_Witness ==
    /\ calls[1].pc = "awaitHttp" /\ calls[1].command = N_think
    /\ calls[2].pc = "awaitTransform" /\ calls[2].command = N_think
    /\ sessionCommands = (N_think :> 2)

\* C30: a generate call invokes, in the step in which it starts, the
\* transform registered at that moment for the command it resolves; from
\* then on neither the transform used nor its result changes, and the
\* request posted is made from that result, whatever is registered while the
\* call is suspended.
C30_TransformFixedAtCall ==
    [][\A i \in Calls :
          /\ (Starts(i) /\ calls'[i].parsed.command # None) =>
                /\ calls'[i].invoked = commands[calls'[i].parsed.command].transform
                /\ calls'[i].posts = 0
          /\ Started(i) =>
                /\ calls'[i].invoked = calls[i].invoked
                /\ calls'[i].transformed = calls[i].transformed
                /\ calls'[i].posts = 1 =>
                      calls'[i].request = WireRequest(calls[i].transformed)]_vars

C30_Witness ==
    /\ calls[1].prompt = P_ThinkHello /\ calls[1].invoked = "transformThink"
    /\ calls[1].pc = "done"
    /\ calls[1].request.system.addendum = "think"
    /\ Usable
    /\ commands[N_think].transform = "customThink"
    /\ calls[2].prompt = P_ThinkHello /\ calls[2].invoked = "customThink"

====
